---- MODULE Spec2Model ----
(***************************************************************************)
(* A state-machine model of the batch-selection engine of skactiveml:      *)
(*   - simple_batch            (skactiveml/utils/_functions.py)            *)
(*   - SubSamplingWrapper.query (skactiveml/pool/_wrapper.py)              *)
(* A numpy array of length n is a function over the Python positions       *)
(* 0..n-1.  NaN is a distinguished number outside the utility range.       *)
(***************************************************************************)
EXTENDS Integers, Sequences, FiniteSets, TLC

\* ------------------------------------------------------------------ bounds
MaxLen == 3        \* longest utility array handed to simple_batch
MaxUtil == 1       \* finite utilities are 0..MaxUtil
MaxBatch == 4      \* largest batch_size a caller asks for
MaxX == 2          \* most rows of X
MaxCand == 3       \* most rows of a candidates feature matrix
FloatDen == 2      \* float max_candidates are the multiples of 1/FloatDen

\* np.nan: a float that is no utility value
NaN == -99

\* a slot of an np.empty array that was not written yet
Uninit == -98

Util == 0..MaxUtil
UtilOrNaN == Util \cup {NaN}

\* all float arrays check_array lets through: non-empty, finite or NaN
UtilArrays == UNION {[0..(n - 1) -> UtilOrNaN] : n \in 1..MaxLen}

VARIABLES
    \* ---- the frame of one simple_batch call
    sb_pc,            \* "idle" | "call" | "loop" | "done" | "raised"
    utilities,        \* the working array (line 69), masked in place
    batch_size,       \* the batch_size parameter, clipped at line 78
    return_utilities, \* the return_utilities parameter
    batch_utilities,  \* np.empty((batch_size,) + utilities.shape), line 81
    best_indices,     \* np.empty((batch_size, ndim)), line 82
    i,                \* the loop variable of line 84
    sb_warned,        \* warnings.warn was called (line 74)
    sb_ret,           \* the returned value (line 93 / 95)
    arg_utilities,    \* the utilities argument as passed by the caller
    arg_batch_size,   \* the batch_size argument as passed by the caller
    caller_kind,      \* what the caller passes as utilities: "float_ndarray"
                      \* or "list"
    caller_utilities, \* the entries of the caller's own object
    shape,            \* utilities.shape; the arrays are stored row by row
    \* ---- the frame of one SubSamplingWrapper.query call
    q_pc,             \* "idle" | "call" | "validated" | "drawn" | "inner" |
                      \* "done" | "raised" | "direct" | "compared"
    n_samples,        \* len(X)
    y,                \* the labels, MISSING_LABEL where unlabeled
    candidates,       \* the candidates argument
    q_batch_size,     \* query's batch_size, clipped by _validate_data
    q_return_utilities, \* query's return_utilities
    max_candidates,   \* self.max_candidates
    query_strategy,   \* the class of self.query_strategy
    score,            \* the utility the wrapped strategy gives a candidate
    seed_multiplier,  \* lines 120-122
    m_candidates,     \* the local max_candidates after lines 153-164
    new_candidates,   \* the drawn sub-sample
    new_candidate_indices, \* its positions in candidates (line 171)
    inner_calls,      \* how often self.query_strategy.query was called
    q_warnings,       \* who emitted a warning during the call
    q_exc,            \* the exception query raised, "none" if none
    q_ret,            \* what query returned
    d_ret,            \* what the wrapped strategy returned when called directly
    random_state,     \* self.random_state of the wrapper
    query_kwargs,     \* the extra keyword arguments of query
    stream,           \* what each seeded RandomState has yielded so far
    inner_args,       \* the arguments self.query_strategy.query was called with
    calls,            \* the query calls completed before this one
    first_draw,       \* the sub-sample the first call drew
    \* ---- an ExpectedErrorReduction object and the frame of its query
    e_pc,             \* "idle" | "call" | "checked" | "loop" | "scored" |
                      \* "done" | "raised"
    self_clf,         \* self.clf: the id of the caller's classifier object
    self_classes,     \* self.classes
    self_method,      \* self.method
    self_C,           \* self.C
    self_random_state, \* self.random_state
    X_cand,           \* the X_cand argument: its rows and features
    X,                \* the X argument: its rows and features
    e_y,              \* the y argument
    e_return_utilities, \* the return_utilities argument
    models,           \* the classifier objects that exist, by id
    clf,              \* the name clf inside expected_error_reduction
    fit_log,          \* the fit calls of this query call, in order
    P,                \* clf.predict_proba(X_cand) of the baseline fit
    costs,            \* the risk after the refit of each trial
    errors,           \* line 157
    errors_per_class, \* line 158
    e_i,              \* the loop variable i of line 159
    e_yi,             \* the loop variable yi of line 160
    e_utilities,      \* line 106
    e_exc,            \* the exception query raised, "none" if none
    e_ret,            \* what query returned
    e_calls,          \* the query calls completed before this one
    e_first,          \* what the first call returned
    \* ---- a CoreSet object and the frame of its query
    c_pc,             \* "idle" | "call" | "loop" | "done" | "raised"
    c_method,         \* self.method
    c_X,              \* the rows of X, points on a line
    c_y,              \* the y argument
    c_candidates,     \* the candidates argument
    c_batch_size,     \* the batch_size argument, clipped by validation
    c_mapping,        \* the indices of X the candidates stand for
    c_reference,      \* the indices of the reference set
    c_utilities,      \* the rows of utilities filled so far
    c_query_indices,  \* the indices selected so far
    c_exc,            \* the exception query raised, "none" if none
    c_ret,            \* what query returned
    \* ---- a ParallelUtilityEstimationWrapper and the frame of its query
    p_pc,             \* "idle" | "call" | "running" | "reduce" | "done" |
                      \* "raised"
    p_n_jobs,         \* self.n_jobs
    p_n_candidates,   \* the number of rows of candidates
    p_score,          \* the utility the wrapped strategy gives a candidate
    p_batch_size,     \* the batch_size argument
    p_partial,        \* the utilities each worker has returned
    p_completed,      \* the workers in the order they completed
    p_utilities,      \* the merged utilities
    p_exc,            \* the exception query raised, "none" if none
    p_ret,            \* what query returned
    \* ---- a TypiClust object and the frame of its query
    t_pc,             \* "idle" | "call" | "validated" | "loop" | "done" |
                      \* "raised"
    t_y,              \* the y argument, one entry per row of X
    t_candidates,     \* the candidates argument
    t_batch_size,     \* batch_size, clipped by _validate_data (line 115)
    t_mapping,        \* mapping, line 119
    n_clusters,       \* line 147
    cluster_labels,   \* line 151
    cluster_typicality, \* the typicality of each row within its cluster
    cluster_sizes,    \* lines 153-162, zeroed at line 181
    t_utilities,      \* line 164
    query_indices,    \* line 165
    t_exc,            \* the exception query raised, "none" if none
    t_ret             \* what query returned

sbVars == <<sb_pc, utilities, batch_size, return_utilities, batch_utilities,
            best_indices, i, sb_warned, sb_ret, arg_utilities, arg_batch_size,
            caller_kind, caller_utilities, shape>>

qVars == <<q_pc, n_samples, y, candidates, q_batch_size, q_return_utilities,
           max_candidates, query_strategy, score, seed_multiplier,
           m_candidates, new_candidates, new_candidate_indices, inner_calls,
           q_warnings, q_exc, q_ret, d_ret, random_state, query_kwargs,
           inner_args, calls, first_draw>>

eVars == <<e_pc, self_clf, self_classes, self_method, self_C,
           self_random_state, X_cand, X, e_y, e_return_utilities, models,
           clf, fit_log, P, costs, errors, errors_per_class, e_i, e_yi,
           e_utilities, e_exc, e_ret, e_calls, e_first>>

cVars == <<c_pc, c_method, c_X, c_y, c_candidates, c_batch_size, c_mapping,
           c_reference, c_utilities, c_query_indices, c_exc, c_ret>>

pVars == <<p_pc, p_n_jobs, p_n_candidates, p_score, p_batch_size, p_partial,
           p_completed, p_utilities, p_exc, p_ret>>

tVars == <<t_pc, t_y, t_candidates, t_batch_size, t_mapping, n_clusters,
           cluster_labels, cluster_typicality, cluster_sizes, t_utilities,
           query_indices, t_exc, t_ret>>

otherVars == <<pVars, tVars>>

restVars == <<eVars, cVars, otherVars>>

vars == <<sbVars, qVars, stream, restVars>>

\* ------------------------------------------------------- array helpers
Len0(a) == Cardinality(DOMAIN a)

isnan(v) == v = NaN

\* np.sum(~np.isnan(utilities), dtype=int), line 72
CountNotNaN(u) == Cardinality({p \in DOMAIN u : ~isnan(u[p])})

\* np.nanmax(a): the largest entry that is not NaN (only used when one exists)
nanmax(u) ==
    CHOOSE m \in {u[p] : p \in {q \in DOMAIN u : ~isnan(u[q])}} :
        \A p \in DOMAIN u : ~isnan(u[p]) => u[p] <= m

\* rand_argmax(a, random_state): the positions tied for the maximum, NaN
\* positions excluded; the random state picks one of them.  Empty when every
\* entry is NaN (rand_argmax fails then).
rand_argmax(u) ==
    IF CountNotNaN(u) = 0 THEN {}
    ELSE {p \in DOMAIN u : ~isnan(u[p]) /\ u[p] = nanmax(u)}

\* check_scalar(batch_size, target_type=int, min_val=1), line 71
check_scalar_batch_size(bs) == bs >= 1

\* lines 72-78: the batch size simple_batch works with
ClipBatchSizeNever(bs, u) == bs

ClipBatchSize(bs, u) ==
    IF CountNotNaN(u) < bs THEN CountNotNaN(u) ELSE bs

\* line 73: the condition under which the warning of line 74 is emitted
ClipWarns(bs, u) == CountNotNaN(u) < bs

\* lines 69-70: check_array(utilities, dtype=float) hands a float array back
\* as it is and converts anything else into a new array
SharesCallerArray(kind) == kind = "float_ndarray"

\* line 87, seen from the caller: the caller's object after the assignment
CallerAfterMask(kind, cu, idx) ==
    IF SharesCallerArray(kind) THEN [cu EXCEPT ![idx] = NaN] ELSE cu

\* line 86: batch_utilities[i] = utilities, a copy of the entries as they are
\* before line 87 masks the selection
SnapshotMasked(u, idx) == [u EXCEPT ![idx] = NaN]

Snapshot(u, idx) == u

\* line 87: utilities[tuple(best_indices[i])] = np.nan
MaskSelectedNoop(u, idx) == u

MaskSelectedZero(u, idx) == [u EXCEPT ![idx] = 0]

MaskSelected(u, idx) == [u EXCEPT ![idx] = NaN]

\* the shapes of one or two dimensions an array of n entries can have
Shapes(n) ==
    {<<n>>} \cup {sh \in (1..n) \X (1..n) : sh[1] * sh[2] = n}

\* the multi-dimensional index of position p of an array stored row by row
unravel_index(p, shp) ==
    IF Len(shp) = 1 THEN <<p>> ELSE <<p \div shp[2], p % shp[2]>>

\* lines 82, 85, 89-90: one row of ndim coordinates per selection, flattened
\* when utilities.ndim == 1
IndexResult(shp, best) ==
    IF Len(shp) = 1 THEN best
    ELSE [k \in DOMAIN best |-> unravel_index(best[k], shp)]

\* lines 92-95: what simple_batch returns
SbReturn(ru, idx, hist) ==
    IF ru THEN [indices |-> idx, utilities |-> hist]
    ELSE [indices |-> idx]

NoRet == [none |-> TRUE]

\* ------------------------------------------------------ simple_batch
\* a caller enters simple_batch(utilities, batch_size, return_utilities)
SbEnter(u, bs, ru) ==
    /\ sb_pc' = "call"
    /\ utilities' = u
    /\ batch_size' = bs
    /\ return_utilities' = ru
    /\ arg_utilities' = u
    /\ arg_batch_size' = bs
    /\ caller_kind' = "float_ndarray"
    /\ caller_utilities' = u
    /\ shape' = <<Len0(u)>>
    /\ batch_utilities' = <<>>
    /\ best_indices' = <<>>
    /\ i' = 0
    /\ sb_warned' = FALSE
    /\ sb_ret' = NoRet

\* lines 69-82: validation, clipping with a warning, allocation
SB_Validate ==
    /\ sb_pc = "call"
    /\ IF ~check_scalar_batch_size(batch_size)
       THEN /\ sb_pc' = "raised"
            /\ UNCHANGED <<batch_size, sb_warned, batch_utilities, best_indices>>
       ELSE /\ sb_pc' = "loop"
            /\ sb_warned' = ClipWarns(batch_size, utilities)
            /\ batch_size' = ClipBatchSize(batch_size, utilities)
            /\ batch_utilities' = [r \in 0..(batch_size' - 1) |-> <<>>]
            /\ best_indices' = [r \in 0..(batch_size' - 1) |-> Uninit]
    /\ i' = 0
    /\ UNCHANGED <<utilities, return_utilities, sb_ret, arg_utilities,
                   arg_batch_size, caller_kind, caller_utilities, shape>>
    /\ UNCHANGED <<qVars, stream, restVars>>

\* lines 84-87: one iteration of the selection loop
SB_Iterate ==
    /\ sb_pc = "loop"
    /\ i < batch_size
    /\ IF rand_argmax(utilities) = {}
       THEN /\ sb_pc' = "raised"
            /\ UNCHANGED <<utilities, batch_utilities, best_indices, i,
                           caller_utilities>>
       ELSE \E idx \in rand_argmax(utilities) :
            /\ best_indices' = [best_indices EXCEPT ![i] = idx]
            /\ batch_utilities' =
                   [batch_utilities EXCEPT ![i] = Snapshot(utilities, idx)]
            /\ utilities' = MaskSelected(utilities, idx)
            /\ caller_utilities' =
                   CallerAfterMask(caller_kind, caller_utilities, idx)
            /\ i' = i + 1
            /\ sb_pc' = "loop"
    /\ UNCHANGED <<batch_size, return_utilities, sb_warned, sb_ret,
                   arg_utilities, arg_batch_size, caller_kind, shape>>
    /\ UNCHANGED <<qVars, stream, restVars>>

\* lines 88-95: the loop is over, the result is returned
SB_Return ==
    /\ sb_pc = "loop"
    /\ i >= batch_size
    /\ sb_pc' = "done"
    /\ sb_ret' = SbReturn(return_utilities, IndexResult(shape, best_indices),
                          batch_utilities)
    /\ UNCHANGED <<utilities, batch_size, return_utilities, batch_utilities,
                   best_indices, i, sb_warned, arg_utilities, arg_batch_size,
                   caller_kind, caller_utilities, shape>>
    /\ UNCHANGED <<qVars, stream, restVars>>

\* random_state=None and a call without extra keyword arguments
NoSeed == [kind |-> "None", seed |-> 0]

NoKwargs == {}

\* the wrapper frame when no query call is modelled
NoCandidates == [form |-> "None", idx |-> <<>>, n |-> 0]

QIdle ==
    /\ q_pc = "idle"
    /\ n_samples = 0
    /\ y = <<>>
    /\ candidates = NoCandidates
    /\ q_batch_size = 0
    /\ q_return_utilities = FALSE
    /\ max_candidates = [type |-> "NoneType", num |-> 0, den |-> 1]
    /\ query_strategy = "NoneType"
    /\ score = <<>>
    /\ seed_multiplier = 0
    /\ m_candidates = 0
    /\ new_candidates = <<>>
    /\ new_candidate_indices = <<>>
    /\ inner_calls = 0
    /\ q_warnings = {}
    /\ q_exc = "none"
    /\ q_ret = NoRet
    /\ d_ret = NoRet
    /\ random_state = NoSeed
    /\ query_kwargs = NoKwargs
    /\ stream = {}
    /\ inner_args = NoRet
    /\ calls = 0
    /\ first_draw = <<>>

\* the ExpectedErrorReduction frame when no such object is modelled
EIdle ==
    /\ e_pc = "idle"
    /\ self_clf = 0
    /\ self_classes = <<>>
    /\ self_method = "emr"
    /\ self_C = "None"
    /\ self_random_state = NoSeed
    /\ X_cand = [rows |-> 0, features |-> 0]
    /\ X = [rows |-> 0, features |-> 0]
    /\ e_y = <<>>
    /\ e_return_utilities = FALSE
    /\ models = <<>>
    /\ clf = 0
    /\ fit_log = <<>>
    /\ P = <<>>
    /\ costs = <<>>
    /\ errors = <<>>
    /\ errors_per_class = <<>>
    /\ e_i = 0
    /\ e_yi = 0
    /\ e_utilities = <<>>
    /\ e_exc = "none"
    /\ e_ret = NoRet
    /\ e_calls = 0
    /\ e_first = NoRet

\* the CoreSet frame when no such object is modelled
CIdle ==
    /\ c_pc = "idle"
    /\ c_method = "greedy"
    /\ c_X = <<>>
    /\ c_y = <<>>
    /\ c_candidates = NoCandidates
    /\ c_batch_size = 0
    /\ c_mapping = <<>>
    /\ c_reference = {}
    /\ c_utilities = <<>>
    /\ c_query_indices = <<>>
    /\ c_exc = "none"
    /\ c_ret = NoRet

\* the parallel wrapper's frame when no such object is modelled
PIdle ==
    /\ p_pc = "idle"
    /\ p_n_jobs = 1
    /\ p_n_candidates = 0
    /\ p_score = <<>>
    /\ p_batch_size = 0
    /\ p_partial = <<>>
    /\ p_completed = <<>>
    /\ p_utilities = <<>>
    /\ p_exc = "none"
    /\ p_ret = NoRet

\* the TypiClust frame when no such object is modelled
TIdle ==
    /\ t_pc = "idle"
    /\ t_y = <<>>
    /\ t_candidates = NoCandidates
    /\ t_batch_size = 0
    /\ t_mapping = <<>>
    /\ n_clusters = 0
    /\ cluster_labels = <<>>
    /\ cluster_typicality = <<>>
    /\ cluster_sizes = <<>>
    /\ t_utilities = <<>>
    /\ query_indices = <<>>
    /\ t_exc = "none"
    /\ t_ret = NoRet

OtherIdle == PIdle /\ TIdle

RestIdle == EIdle /\ CIdle /\ OtherIdle

\* ------------------------------- simple_batch called on its own
InitSB ==
    /\ sb_pc = "call"
    /\ utilities \in UtilArrays
    /\ batch_size \in 0..MaxBatch
    /\ return_utilities \in BOOLEAN
    /\ arg_utilities = utilities
    /\ arg_batch_size = batch_size
    /\ caller_kind \in {"float_ndarray", "list"}
    /\ caller_utilities = utilities
    /\ shape \in Shapes(Len0(utilities))
    /\ batch_utilities = <<>>
    /\ best_indices = <<>>
    /\ i = 0
    /\ sb_warned = FALSE
    /\ sb_ret = NoRet
    /\ QIdle
    /\ RestIdle

NextSB ==
    \/ SB_Validate
    \/ SB_Iterate
    \/ SB_Return

SpecSB == InitSB /\ [][NextSB]_vars

\* =================================================== SubSamplingWrapper
\* MISSING_LABEL is np.nan
MISSING_LABEL == NaN

\* the class labels a labeled entry of y holds
Labels == {0}

\* an index set as the ascending array np.unique / np.where return
SortedArray(S) ==
    [j \in 0..(Cardinality(S) - 1) |->
        CHOOSE e \in S : Cardinality({x \in S : x < e}) = j]

Range(a) == {a[j] : j \in DOMAIN a}

\* is_labeled(y, missing_label).sum()
CountLabeled(yv) == Cardinality({p \in DOMAIN yv : yv[p] # MISSING_LABEL})

\* unlabeled_indices(y, missing_label), lines 150-152
unlabeled_indices(yv) ==
    SortedArray({p \in DOMAIN yv : yv[p] = MISSING_LABEL})

\* the array the sub-sample is drawn from: candidate_indices (line 150),
\* candidates (line 167) or range(len(candidates)) (line 170)
PoolArray(c, yv) ==
    IF c.form = "None" THEN unlabeled_indices(yv)
    ELSE IF c.form = "idx" THEN c.idx
    ELSE [j \in 0..(c.n - 1) |-> j]

\* _validate_data: a batch_size above the number of candidates is clipped
\* to it (with a warning)
ValidateBatchSize(bs, n_cand) == IF n_cand < bs THEN n_cand ELSE bs

\* lines 124-146: the type and range checks of max_candidates
CheckMaxCandidatesInclusive(mc) ==
    IF mc.type = "int"
    THEN (IF mc.num >= 1 THEN "ok" ELSE "ValueError")
    ELSE IF mc.type = "float"
         THEN (IF mc.num >= 0 /\ mc.num <= mc.den THEN "ok" ELSE "ValueError")
         ELSE "TypeError"

CheckMaxCandidates(mc) ==
    IF mc.type = "int"
    THEN (IF mc.num >= 1 THEN "ok" ELSE "ValueError")
    ELSE IF mc.type = "float"
         THEN (IF mc.num > 0 /\ mc.num <= mc.den THEN "ok" ELSE "ValueError")
         ELSE "TypeError"

\* math.ceil of the non-negative fraction a/b
ceil(a, b) == (a + b - 1) \div b

\* lines 153-157 and 162-164: the size of the sub-sample
SubSampleSizeFloor(mc, pool) ==
    LET m == IF mc.type = "float" THEN (pool * mc.num) \div mc.den
             ELSE mc.num
    IN  IF m < pool THEN m ELSE pool

SubSampleSizeUnclipped(mc, pool) ==
    IF mc.type = "float" THEN ceil(pool * mc.num, mc.den) ELSE mc.num

SubSampleSize(mc, pool) ==
    LET m == IF mc.type = "float" THEN ceil(pool * mc.num, mc.den)
             ELSE mc.num
    IN  IF m < pool THEN m ELSE pool

\* random_state.choice(a, size=m, replace=False): the positions of a it may
\* pick, in the order it may return them
Draws(a, m) ==
    {f \in [0..(m - 1) -> DOMAIN a] :
        \A j, k \in 0..(m - 1) : j # k => f[j] # f[k]}

\* lines 120-122: the number of labeled entries of y, plus one
SeedMultiplierNoOffset(yv) == CountLabeled(yv)

SeedMultiplier(yv) == CountLabeled(yv) + 1

\* line 147: check_random_state gives the process-wide generator for
\* random_state=None and otherwise a new generator, at the start of its
\* stream, whose seed is derived from the configured seed and the multiplier
check_random_state(rs, mult) ==
    IF rs.kind = "None"
    THEN [kind |-> "global", seed |-> 0, pos |-> 0]
    ELSE [kind |-> "RandomState", seed |-> rs.seed * mult, pos |-> 0]

\* what a generator is asked at lines 158, 166 and 171: its seed, how far its
\* stream has been consumed, the population size and the sample size
DrawKey(rs, n, m) == <<rs.seed, rs.pos, n, m>>

\* a seeded generator answers a request it has answered before in the same
\* way; the process-wide generator may answer anything
Yields(rs, n, m, sel) ==
    IF rs.kind = "global"
    THEN TRUE
    ELSE \A e \in stream : e.key = DrawKey(rs, n, m) => e.sel = sel

Consumed(rs, n, m, sel) ==
    IF rs.kind = "global"
    THEN stream
    ELSE stream \cup {[key |-> DrawKey(rs, n, m), sel |-> sel]}

\* lines 176-183: the arguments of self.query_strategy.query
InnerArgsWholePool(n, yv, cand, bs, ru, kw, pool) ==
    [X |-> n, y |-> yv, candidates |-> pool, batch_size |-> bs,
     return_utilities |-> ru, kwargs |-> kw]

InnerArgs(n, yv, cand, bs, ru, kw, pool) ==
    [X |-> n, y |-> yv, candidates |-> cand, batch_size |-> bs,
     return_utilities |-> ru, kwargs |-> kw]

\* the utilities a strategy computes before it reduces them to a batch: for
\* candidates given as indices an array over X that is NaN outside the
\* candidates, for candidates given as rows one utility per row
StrategyUtilities(form, cand, n, sc) ==
    IF form = "mat"
    THEN [j \in DOMAIN cand |-> sc[cand[j]]]
    ELSE [p \in 0..(n - 1) |-> IF p \in Range(cand) THEN sc[p] ELSE NaN]

\* lines 187 and 199: new_candidate_indices[queried_indices]
TranslateIndicesIdentity(nci, queried) == queried

TranslateIndices(nci, queried) ==
    [k \in DOMAIN queried |-> nci[queried[k]]]

\* line 198: numpy lets an array of rows_src rows be assigned to a slice of
\* rows_dst rows when the counts agree or the source has one row
Broadcastable(rows_src, rows_dst) == rows_src = rows_dst \/ rows_src = 1

\* lines 195-198: the utilities embedded in a NaN array over candidates
EmbedUtilitiesZeroFill(bs, k, nci, utils) ==
    [r \in 0..(bs - 1) |->
        [c \in 0..(k - 1) |->
            IF c \in Range(nci)
            THEN utils[IF Len0(utils) = 1 THEN 0 ELSE r]
                      [CHOOSE j \in DOMAIN nci : nci[j] = c]
            ELSE 0]]

EmbedUtilitiesUnpermuted(bs, k, nci, utils) ==
    [r \in 0..(bs - 1) |->
        [c \in 0..(k - 1) |->
            IF c \in DOMAIN nci
            THEN utils[IF Len0(utils) = 1 THEN 0 ELSE r][c]
            ELSE NaN]]

EmbedUtilities(bs, k, nci, utils) ==
    [r \in 0..(bs - 1) |->
        [c \in 0..(k - 1) |->
            IF c \in Range(nci)
            THEN utils[IF Len0(utils) = 1 THEN 0 ELSE r]
                      [CHOOSE j \in DOMAIN nci : nci[j] = c]
            ELSE NaN]]

SbIdle ==
    /\ sb_pc = "idle"
    /\ utilities = <<>>
    /\ batch_size = 0
    /\ return_utilities = FALSE
    /\ arg_utilities = <<>>
    /\ arg_batch_size = 0
    /\ caller_kind = "float_ndarray"
    /\ caller_utilities = <<>>
    /\ shape = <<>>
    /\ batch_utilities = <<>>
    /\ best_indices = <<>>
    /\ i = 0
    /\ sb_warned = FALSE
    /\ sb_ret = NoRet

\* the candidates arguments: None, a 1-D index array, a 2-D feature matrix
CandidateArgs(n) ==
    {NoCandidates}
    \cup {[form |-> "idx", idx |-> SortedArray(S), n |-> Cardinality(S)] :
             S \in (SUBSET (0..(n - 1))) \ {{}}}
    \cup {[form |-> "mat", idx |-> <<>>, n |-> k] : k \in 1..MaxCand}

MaxCandidatesValues ==
    {[type |-> "int", num |-> v, den |-> 1] : v \in 0..MaxCand}
    \cup {[type |-> "float", num |-> v, den |-> FloatDen] :
             v \in 0..(FloatDen + 1)}
    \cup {[type |-> t, num |-> 0, den |-> 1] : t \in {"str", "NoneType"}}

\* the utilities the wrapped strategy computes: two levels, so that
\* candidates may tie or differ
ScoreLevels == {0, 1}

\* the positions a strategy's utilities are indexed by
Frame(c, n) == IF c.form = "mat" THEN 0..(c.n - 1) ELSE 0..(n - 1)

\* the candidate pool as a set of frame positions
Pool == Range(PoolArray(candidates, y))

\* the batch_size query works with after _validate_data (line 110)
v_batch_size == ValidateBatchSize(q_batch_size, Cardinality(Pool))

InitQFrame ==
    /\ SbIdle
    /\ RestIdle
    /\ q_pc = "call"
    /\ n_samples \in 1..MaxX
    /\ y \in [0..(n_samples - 1) -> Labels \cup {MISSING_LABEL}]
    /\ candidates \in CandidateArgs(n_samples)
    \* the rows of X play no part when candidates is a feature matrix
    /\ candidates.form = "mat" => n_samples = 1
    \* there is a candidate to choose
    /\ Len0(PoolArray(candidates, y)) >= 1
    /\ q_batch_size \in 1..MaxCand
    /\ q_return_utilities \in BOOLEAN
    /\ max_candidates \in MaxCandidatesValues
    /\ query_strategy \in {"SingleAnnotatorPoolQueryStrategy",
                           "IntervalEstimationThreshold"}
    /\ score \in [Frame(candidates, n_samples) -> ScoreLevels]
    /\ \A p \in DOMAIN score :
           p \notin Range(PoolArray(candidates, y)) => score[p] = 0
    /\ seed_multiplier = 0
    /\ m_candidates = 0
    /\ new_candidates = <<>>
    /\ new_candidate_indices = <<>>
    /\ inner_calls = 0
    /\ q_warnings = {}
    /\ q_exc = "none"
    /\ q_ret = NoRet
    /\ d_ret = NoRet
    /\ stream = {}
    /\ inner_args = NoRet
    /\ calls = 0
    /\ first_draw = <<>>

\* one call with random_state=None and no extra keyword arguments
InitQ ==
    /\ InitQFrame
    /\ random_state = NoSeed
    /\ query_kwargs = NoKwargs

qArgs == <<n_samples, y, candidates, q_batch_size, q_return_utilities,
           max_candidates, query_strategy, score, random_state,
           query_kwargs>>

qRepeat == <<calls, first_draw>>

\* lines 110-147: _validate_data, the query_strategy check, the seed
\* multiplier and the checks of max_candidates
Q_Validate ==
    /\ q_pc = "call"
    /\ q_warnings' = IF Cardinality(Pool) < q_batch_size
                     THEN q_warnings \cup {"_validate_data"}
                     ELSE q_warnings
    /\ IF query_strategy # "SingleAnnotatorPoolQueryStrategy"
       THEN /\ q_pc' = "raised"
            /\ q_exc' = "TypeError"
            /\ UNCHANGED seed_multiplier
       ELSE /\ seed_multiplier' = SeedMultiplier(y)
            /\ IF CheckMaxCandidates(max_candidates) = "ok"
               THEN q_pc' = "validated" /\ q_exc' = "none"
               ELSE q_pc' = "raised"
                    /\ q_exc' = CheckMaxCandidates(max_candidates)
    /\ UNCHANGED <<qArgs, m_candidates, new_candidates,
                   new_candidate_indices, inner_calls, q_ret, d_ret, stream,
                   inner_args, qRepeat>>
    /\ UNCHANGED <<sbVars, restVars>>

\* lines 149-174: the sub-sample is drawn
Q_Draw ==
    /\ q_pc = "validated"
    /\ LET a == PoolArray(candidates, y)
           m == SubSampleSize(max_candidates, Len0(a))
           rs == check_random_state(random_state, seed_multiplier)
       IN  /\ m_candidates' = m
           /\ IF m > Len0(a)
              THEN /\ q_pc' = "raised"
                   /\ q_exc' = "ValueError"
                   /\ UNCHANGED <<new_candidates, new_candidate_indices,
                                  stream>>
              ELSE \E sel \in Draws(a, m) :
                   /\ Yields(rs, Len0(a), m, sel)
                   /\ stream' = Consumed(rs, Len0(a), m, sel)
                   /\ q_pc' = "drawn"
                   /\ q_exc' = "none"
                   /\ new_candidates' = [j \in 0..(m - 1) |-> a[sel[j]]]
                   /\ new_candidate_indices' =
                          IF candidates.form = "mat" THEN sel ELSE <<>>
    /\ UNCHANGED <<qArgs, seed_multiplier, inner_calls, q_warnings, q_ret,
                   d_ret, inner_args, qRepeat>>
    /\ UNCHANGED <<sbVars, restVars>>

\* lines 176-183: self.query_strategy.query is called on the sub-sample; the
\* strategy validates batch_size against its candidates, computes their
\* utilities and hands them to simple_batch
Q_InnerQuery ==
    /\ q_pc = "drawn"
    /\ q_pc' = "inner"
    /\ inner_calls' = inner_calls + 1
    /\ q_warnings' = IF Len0(new_candidates) < v_batch_size
                     THEN q_warnings \cup {"query_strategy"}
                     ELSE q_warnings
    /\ SbEnter(StrategyUtilities(candidates.form, new_candidates, n_samples,
                                 score),
               ValidateBatchSize(v_batch_size, Len0(new_candidates)),
               q_return_utilities)
    /\ UNCHANGED restVars
    /\ inner_args' = InnerArgs(n_samples, y, new_candidates, v_batch_size,
                               q_return_utilities, query_kwargs,
                               PoolArray(candidates, y))
    /\ UNCHANGED <<qArgs, seed_multiplier, m_candidates, new_candidates,
                   new_candidate_indices, q_exc, q_ret, d_ret, stream,
                   qRepeat>>

\* lines 185-201: the strategy's output is put back into the caller's frame
Q_Post ==
    /\ q_pc = "inner"
    /\ sb_pc \in {"done", "raised"}
    /\ q_warnings' = IF sb_warned THEN q_warnings \cup {"simple_batch"}
                     ELSE q_warnings
    /\ IF sb_pc = "raised"
       THEN q_pc' = "raised" /\ q_exc' = "ValueError" /\ UNCHANGED q_ret
       ELSE IF ~q_return_utilities
       THEN /\ q_pc' = "done"
            /\ q_exc' = "none"
            /\ q_ret' = [indices |->
                   IF candidates.form = "mat"
                   THEN TranslateIndices(new_candidate_indices, sb_ret.indices)
                   ELSE sb_ret.indices]
       ELSE IF candidates.form # "mat"
       THEN /\ q_pc' = "done"
            /\ q_exc' = "none"
            /\ q_ret' = [indices |-> sb_ret.indices,
                         utilities |-> sb_ret.utilities]
       ELSE IF ~Broadcastable(Len0(sb_ret.utilities), v_batch_size)
       THEN q_pc' = "raised" /\ q_exc' = "ValueError" /\ UNCHANGED q_ret
       ELSE /\ q_pc' = "done"
            /\ q_exc' = "none"
            /\ q_ret' = [indices |->
                            TranslateIndices(new_candidate_indices,
                                             sb_ret.indices),
                         utilities |->
                            EmbedUtilities(v_batch_size, candidates.n,
                                           new_candidate_indices,
                                           sb_ret.utilities)]
    /\ UNCHANGED <<qArgs, seed_multiplier, m_candidates, new_candidates,
                   new_candidate_indices, inner_calls, d_ret, stream,
                   inner_args, qRepeat>>
    /\ UNCHANGED <<sbVars, restVars>>

\* the wrapped strategy's own query, called with the same arguments on the
\* full candidate set
T_DirectQuery ==
    /\ q_pc = "done"
    /\ q_return_utilities
    /\ q_pc' = "direct"
    /\ SbEnter(StrategyUtilities(candidates.form,
                                 PoolArray(candidates, y), n_samples, score),
               v_batch_size, q_return_utilities)
    /\ UNCHANGED restVars
    /\ UNCHANGED <<qArgs, seed_multiplier, m_candidates, new_candidates,
                   new_candidate_indices, inner_calls, q_warnings, q_exc,
                   q_ret, d_ret, stream, inner_args, qRepeat>>

T_DirectReturn ==
    /\ q_pc = "direct"
    /\ sb_pc = "done"
    /\ q_pc' = "compared"
    /\ d_ret' = sb_ret
    /\ UNCHANGED <<qArgs, seed_multiplier, m_candidates, new_candidates,
                   new_candidate_indices, inner_calls, q_warnings, q_exc,
                   q_ret, stream, inner_args, qRepeat>>
    /\ UNCHANGED <<sbVars, restVars>>

\* one query call of the wrapper
NextQ ==
    \/ Q_Validate
    \/ Q_Draw
    \/ Q_InnerQuery
    \/ SB_Validate
    \/ SB_Iterate
    \/ SB_Return
    \/ Q_Post

SpecQ == InitQ /\ [][NextQ]_vars

\* a query call of the wrapper with return_utilities=True, followed by the
\* wrapped strategy's own query with the same arguments
InitQD == InitQ /\ q_return_utilities

NextQD ==
    \/ Q_Validate
    \/ Q_Draw
    \/ Q_InnerQuery
    \/ SB_Validate
    \/ SB_Iterate
    \/ SB_Return
    \/ Q_Post
    \/ T_DirectQuery
    \/ T_DirectReturn

SpecQD == InitQD /\ [][NextQD]_vars

\* ------------------------ two query calls of one wrapper, same arguments
MaxSeed == 2

KwargsValues == {NoKwargs, {"fit_ensemble"}}

InitQR ==
    /\ InitQFrame
    /\ query_strategy = "SingleAnnotatorPoolQueryStrategy"
    /\ CheckMaxCandidates(max_candidates) = "ok"
    /\ \A p \in DOMAIN score : score[p] = 0
    /\ random_state \in {[kind |-> "int", seed |-> sd] : sd \in 1..MaxSeed}
    /\ query_kwargs \in KwargsValues

\* the caller calls query again on the same wrapper with the arguments of
\* the first call
Q_Again ==
    /\ q_pc = "done"
    /\ calls = 0
    /\ calls' = 1
    /\ first_draw' = new_candidates
    /\ q_pc' = "call"
    /\ seed_multiplier' = 0
    /\ m_candidates' = 0
    /\ new_candidates' = <<>>
    /\ new_candidate_indices' = <<>>
    /\ inner_calls' = 0
    /\ q_warnings' = {}
    /\ q_ret' = NoRet
    /\ inner_args' = NoRet
    /\ UNCHANGED <<qArgs, q_exc, d_ret, stream>>
    /\ UNCHANGED <<sbVars, restVars>>

NextQR ==
    \/ Q_Validate
    \/ Q_Draw
    \/ Q_InnerQuery
    \/ SB_Validate
    \/ SB_Iterate
    \/ SB_Return
    \/ Q_Post
    \/ Q_Again

SpecQR == InitQR /\ [][NextQR]_vars

\* =============================================== ExpectedErrorReduction
EMR == "emr"

CSL == "csl"

LOG_LOSS == "log_loss"

MaxRows == 2

\* the class lists of a strategy and of a classifier
ClassLists == {<<0, 1>>, <<1, 2>>}

MethodValues == {EMR, CSL, LOG_LOSS, "entropy"}

\* the risk a refitted model is found to have
CostLevels == {0, 1}

RECURSIVE SumTo(_, _)
\* f[0] + ... + f[n - 1]
SumTo(f, n) == IF n = 0 THEN 0 ELSE SumTo(f, n - 1) + f[n - 1]

\* a row of predict_proba: class frequencies that sum to 2
Posteriors(n_classes) ==
    {pr \in [0..(n_classes - 1) -> 0..2] : SumTo(pr, n_classes) = 2}

\* lines 82-98: the checks of self.clf, self.classes and self.method
CheckConfigAnyMethod(c, classes, method) ==
    IF c.type # "ClassFrequencyEstimator" THEN "TypeError"
    ELSE IF c.classes # classes THEN "ValueError"
    ELSE "ok"

CheckConfig(c, classes, method) ==
    IF c.type # "ClassFrequencyEstimator" THEN "TypeError"
    ELSE IF c.classes # classes THEN "ValueError"
    ELSE IF method \notin {EMR, CSL, LOG_LOSS} THEN "ValueError"
    ELSE "ok"

\* line 89 is reached when lines 82-88 did not raise
ReachesLine89(c, classes) ==
    c.type = "ClassFrequencyEstimator" /\ c.classes = classes

\* line 100: sklearn's check_random_state makes a new generator of an integer
\* seed and returns a generator object as it is
sk_check_random_state(rs) ==
    IF rs.kind = "int"
    THEN [kind |-> "RandomState", seed |-> rs.seed, pos |-> 0]
    ELSE rs

\* lines 147-148
FeaturesDiffer(Xa, Xc) ==
    Xa.rows > 0 /\ Xc.rows > 0 /\ ~(Xa.features = Xc.features)

\* line 151: clone(clf) is a new object with the parameters of clf, unfitted
clone(c) == [c EXCEPT !.fitted = FALSE]

\* line 151: the object the name clf is bound to after clf = clone(clf)
BoundClfCaller(caller, fresh) == caller

BoundClf(caller, fresh) == fresh

\* lines 152 and 161: fit on an object
Fit(ms, id) == [ms EXCEPT ![id].fitted = TRUE]

\* line 161: the object clf.fit is called on
RefitTargetCaller(bound, caller) == caller

RefitTarget(bound, caller) == bound

\* line 161: the label np.append puts at the end of y for trial yi
HypotheticalLabel(classes, yi) == yi

\* lines 166-168: the rows of X the csl risk of a trial is taken over
CslRows(yv) == {p \in DOMAIN yv : yv[p] # MISSING_LABEL}

\* lines 162-176: the array and rows the refitted model is evaluated on
RiskRows(method, yv, n_cand) ==
    IF method = CSL THEN [array |-> "X", rows |-> CslRows(yv)]
    ELSE IF method \in {EMR, LOG_LOSS}
    THEN [array |-> "X_cand", rows |-> 0..(n_cand - 1)]
    ELSE [array |-> "none", rows |-> {}]

\* lines 171-174: the csl risk over the labeled rows, 0 when there is none
CslCostLevelsAny(rows) == CostLevels

CslCostLevels(rows) == IF rows = {} THEN {0} ELSE CostLevels

\* lines 162-176: the risk of one trial
TrialCostLevels(method, yv) ==
    IF method = CSL THEN CslCostLevels(CslRows(yv)) ELSE CostLevels

\* line 181
WeightedCostUnweighted(Pv, ci, yi, c) == c

WeightedCost(Pv, ci, yi, c) == Pv[ci][yi] * c

\* line 183
Utilities(errs) == [ci \in DOMAIN errs |-> 0 - errs[ci]]

\* lines 110-113
EerReturn(ru, idx, utils) ==
    IF ru
    THEN [indices |-> [j \in 0..0 |-> idx], utilities |-> [r \in 0..0 |-> utils]]
    ELSE [indices |-> [j \in 0..0 |-> idx]]

Zeros(n) == [j \in 0..(n - 1) |-> 0]

NotComputed(k, n_classes) ==
    [ci \in 0..(k - 1) |-> [yi \in 0..(n_classes - 1) |-> Uninit]]

eArgs == <<self_clf, self_classes, self_method, X_cand, X, e_y,
           e_return_utilities>>

eLocals == <<clf, fit_log, errors, errors_per_class, e_i, e_yi, e_utilities>>

\* an ExpectedErrorReduction object with an integer random_state, and the
\* arguments of its first query call
InitE ==
    /\ SbIdle
    /\ QIdle
    /\ CIdle
    /\ OtherIdle
    /\ e_pc = "call"
    /\ self_clf = 0
    /\ models \in {[id \in 0..0 |-> [type |-> t, classes |-> cl,
                                     fitted |-> FALSE]] :
                      t \in {"ClassFrequencyEstimator", "SVC"},
                      cl \in ClassLists}
    /\ self_classes \in ClassLists
    /\ self_method \in MethodValues
    /\ self_C \in {"None", "matrix"}
    /\ self_random_state = [kind |-> "int", seed |-> 1]
    /\ X_cand \in {[rows |-> k, features |-> f] : k \in 1..MaxRows, f \in 1..2}
    /\ X \in {[rows |-> n, features |-> 1] : n \in 1..MaxRows}
    \* the labeled samples come first
    /\ e_y \in {[p \in 0..(X.rows - 1) |->
                    IF p < j THEN self_classes[1] ELSE MISSING_LABEL] :
                 j \in 0..X.rows}
    /\ e_return_utilities \in BOOLEAN
    /\ clf = 0
    /\ fit_log = <<>>
    /\ P = <<>>
    /\ costs = <<>>
    /\ errors = <<>>
    /\ errors_per_class = <<>>
    /\ e_i = 0
    /\ e_yi = 0
    /\ e_utilities = <<>>
    /\ e_exc = "none"
    /\ e_ret = NoRet
    /\ e_calls = 0
    /\ e_first = NoRet

\* lines 82-100: the configuration is checked, self.C and self.random_state
\* are set
E_CheckConfig ==
    /\ e_pc = "call"
    /\ LET verdict == CheckConfig(models[self_clf], self_classes, self_method)
       IN  /\ self_C' = IF ReachesLine89(models[self_clf], self_classes)
                           /\ self_C = "None"
                        THEN "matrix"
                        ELSE self_C
           /\ IF verdict = "ok"
              THEN /\ e_pc' = "checked"
                   /\ e_exc' = "none"
                   /\ self_random_state' =
                          sk_check_random_state(self_random_state)
              ELSE /\ e_pc' = "raised"
                   /\ e_exc' = verdict
                   /\ UNCHANGED self_random_state
    /\ UNCHANGED <<eArgs, eLocals, models, P, costs, e_ret, e_calls, e_first>>
    /\ UNCHANGED <<sbVars, qVars, stream, cVars, otherVars>>

\* lines 102-106 and 147-158: the arrays are checked, the classifier is
\* cloned, the clone is fitted on (X, y) and predicts the candidates
E_Baseline ==
    /\ e_pc = "checked"
    /\ IF FeaturesDiffer(X, X_cand)
       THEN /\ e_pc' = "raised"
            /\ e_exc' = "ValueError"
            /\ UNCHANGED <<models, clf, fit_log, P, costs, errors,
                           errors_per_class>>
       ELSE LET fresh == Len0(models)
                cloned == [id \in 0..fresh |->
                              IF id = fresh THEN clone(models[self_clf])
                              ELSE models[id]]
                target == BoundClf(self_clf, fresh)
                n_classes == Len(self_classes)
            IN  /\ e_pc' = "loop"
                /\ e_exc' = "none"
                /\ clf' = target
                /\ models' = Fit(cloned, target)
                /\ fit_log' = <<[obj |-> target, kind |-> "baseline",
                                 ci |-> 0, yi |-> 0, rows |-> X.rows,
                                 label |-> MISSING_LABEL]>>
                /\ IF e_calls = 0
                   THEN /\ P' \in [0..(X_cand.rows - 1) ->
                                      Posteriors(n_classes)]
                        /\ costs' = NotComputed(X_cand.rows, n_classes)
                   ELSE UNCHANGED <<P, costs>>
                /\ errors' = Zeros(X_cand.rows)
                /\ errors_per_class' = Zeros(n_classes)
    /\ e_i' = 0
    /\ e_yi' = 0
    /\ UNCHANGED <<eArgs, self_C, self_random_state, e_utilities, e_ret,
                   e_calls, e_first>>
    /\ UNCHANGED <<sbVars, qVars, stream, cVars, otherVars>>

\* lines 159-183: one pass of the inner loop, the refit for candidate i and
\* hypothetical label yi and its risk; after the last pass the utilities
E_Trial ==
    /\ e_pc = "loop"
    /\ LET n_classes == Len(self_classes)
           target == RefitTarget(clf, self_clf)
           entry == [obj |-> target, kind |-> "trial", ci |-> e_i,
                     yi |-> e_yi, rows |-> X.rows + 1,
                     label |-> HypotheticalLabel(self_classes, e_yi),
                     risk_on |-> RiskRows(self_method, e_y, X_cand.rows)]
       IN
       /\ models' = Fit(models, target)
       /\ fit_log' = Append(fit_log, entry)
       /\ IF self_method \notin {EMR, CSL, LOG_LOSS}
          THEN /\ e_pc' = "raised"
               /\ e_exc' = "ValueError"
               /\ UNCHANGED <<costs, errors, errors_per_class, e_i, e_yi,
                              e_utilities>>
          ELSE \E c \in TrialCostLevels(self_method, e_y) :
               /\ e_calls > 0 => c = costs[e_i][e_yi]
               /\ costs' = [costs EXCEPT ![e_i][e_yi] = c]
               /\ LET epc == [errors_per_class EXCEPT
                                 ![e_yi] = WeightedCost(P, e_i, e_yi, c)]
                      errs == IF e_yi = n_classes - 1
                              THEN [errors EXCEPT
                                       ![e_i] = SumTo(epc, n_classes)]
                              ELSE errors
                  IN  /\ errors_per_class' = epc
                      /\ errors' = errs
                      /\ e_exc' = "none"
                      /\ IF e_yi < n_classes - 1
                         THEN /\ e_yi' = e_yi + 1
                              /\ UNCHANGED <<e_i, e_pc, e_utilities>>
                         ELSE IF e_i < X_cand.rows - 1
                         THEN /\ e_yi' = 0
                              /\ e_i' = e_i + 1
                              /\ UNCHANGED <<e_pc, e_utilities>>
                         ELSE /\ e_pc' = "scored"
                              /\ e_utilities' = Utilities(errs)
                              /\ UNCHANGED <<e_i, e_yi>>
    /\ UNCHANGED <<eArgs, self_C, self_random_state, clf, P, e_ret, e_calls,
                   e_first>>
    /\ UNCHANGED <<sbVars, qVars, stream, cVars, otherVars>>

\* lines 109-113: rand_argmax picks among the maxima with self.random_state
E_Select ==
    /\ e_pc = "scored"
    /\ \E idx \in rand_argmax(e_utilities) :
           /\ Yields(self_random_state, e_utilities, "rand_argmax", idx)
           /\ stream' = Consumed(self_random_state, e_utilities,
                                 "rand_argmax", idx)
           /\ e_ret' = EerReturn(e_return_utilities, idx, e_utilities)
    /\ self_random_state' = [self_random_state EXCEPT !.pos = @ + 1]
    /\ e_pc' = "done"
    /\ UNCHANGED <<eArgs, eLocals, self_C, models, P, costs, e_exc, e_calls,
                   e_first>>
    /\ UNCHANGED <<sbVars, qVars, cVars, otherVars>>

\* the caller calls query again on the same object with the same arguments
E_Again ==
    /\ e_pc = "done"
    /\ e_calls = 0
    /\ e_calls' = 1
    /\ e_first' = [indices |-> e_ret.indices, utilities |-> e_utilities]
    /\ e_pc' = "call"
    /\ clf' = 0
    /\ fit_log' = <<>>
    /\ errors' = <<>>
    /\ errors_per_class' = <<>>
    /\ e_i' = 0
    /\ e_yi' = 0
    /\ e_utilities' = <<>>
    /\ e_ret' = NoRet
    /\ UNCHANGED <<eArgs, self_C, self_random_state, models, P, costs, e_exc>>
    /\ UNCHANGED <<sbVars, qVars, stream, cVars, otherVars>>

\* one query call
NextE ==
    \/ E_CheckConfig
    \/ E_Baseline
    \/ E_Trial
    \/ E_Select

SpecE == InitE /\ [][NextE]_vars

\* two query calls of one object whose configuration is valid
InitER ==
    /\ InitE
    /\ CheckConfig(models[self_clf], self_classes, self_method) = "ok"
    /\ ~FeaturesDiffer(X, X_cand)
    /\ self_method = EMR
    /\ self_C = "None"

NextER ==
    \/ E_CheckConfig
    \/ E_Baseline
    \/ E_Trial
    \/ E_Select
    \/ E_Again

SpecER == InitER /\ [][NextER]_vars

\* ================================================================ CoreSet
MaxPts == 3

MaxCoord == 2

\* the distance of two points on the line
DistSigned(a, b) == a - b

Dist(a, b) == IF a < b THEN b - a ELSE a - b

\* the least element of a non-empty set of numbers
Min(S) == CHOOSE v \in S : \A w \in S : v <= w

\* the distance of row p to the nearest row of the reference set
NearestDistance(Xv, ref, p) == Min({Dist(Xv[p], Xv[r]) : r \in ref})

\* a row of utilities: the distance to the reference set for the candidates
\* still to be selected, NaN for every other index of X
UpdateDistances(Xv, ref, mapping, chosen) ==
    [p \in DOMAIN Xv |->
        IF p \in Range(mapping) /\ p \notin Range(chosen)
        THEN NearestDistance(Xv, ref, p)
        ELSE NaN]

\* the selected candidate joins the reference set
AddToReferenceNever(ref, idx) == ref

AddToReference(ref, idx) == ref \cup {idx}

\* the set of labeled rows
LabeledIndices(yv) == {p \in DOMAIN yv : yv[p] # MISSING_LABEL}

\* rows of X in nondecreasing order along the line
SortedPoints(n) ==
    {f \in [0..(n - 1) -> 0..MaxCoord] :
        \A a, b \in 0..(n - 1) : a < b => f[a] <= f[b]}

\* a CoreSet object and the arguments of a query call with
\* return_utilities=True; at least one row is labeled and there is a
\* candidate
InitC ==
    /\ SbIdle
    /\ QIdle
    /\ EIdle
    /\ OtherIdle
    /\ c_pc = "call"
    /\ c_method \in {"greedy", "string"}
    /\ c_X \in UNION {SortedPoints(n) : n \in 1..MaxPts}
    /\ c_y \in [DOMAIN c_X -> Labels \cup {MISSING_LABEL}]
    /\ LabeledIndices(c_y) # {}
    /\ c_candidates \in {c \in CandidateArgs(Len0(c_X)) : c.form # "mat"}
    /\ Len0(PoolArray(c_candidates, c_y)) >= 1
    /\ c_batch_size \in 1..MaxPts
    /\ c_mapping = <<>>
    /\ c_reference = {}
    /\ c_utilities = <<>>
    /\ c_query_indices = <<>>
    /\ c_exc = "none"
    /\ c_ret = NoRet

cArgs == <<c_method, c_X, c_y, c_candidates>>

\* the method is checked, the candidates are resolved to indices of X, the
\* batch size is clipped to their number and the labeled rows become the
\* reference set
C_Validate ==
    /\ c_pc = "call"
    /\ IF c_method # "greedy"
       THEN /\ c_pc' = "raised"
            /\ c_exc' = "ValueError"
            /\ UNCHANGED <<c_batch_size, c_mapping, c_reference>>
       ELSE /\ c_pc' = "loop"
            /\ c_exc' = "none"
            /\ c_mapping' = PoolArray(c_candidates, c_y)
            /\ c_batch_size' =
                   ValidateBatchSize(c_batch_size,
                                     Len0(PoolArray(c_candidates, c_y)))
            /\ c_reference' = LabeledIndices(c_y)
    /\ UNCHANGED <<cArgs, c_utilities, c_query_indices, c_ret>>
    /\ UNCHANGED <<sbVars, qVars, stream, eVars, otherVars>>

\* one iteration: the utilities of the row, the selection of a candidate of
\* maximum utility, its addition to the reference set
C_Iterate ==
    /\ c_pc = "loop"
    /\ Len0(c_query_indices) < c_batch_size
    /\ LET row == UpdateDistances(c_X, c_reference, c_mapping,
                                  c_query_indices)
           k == Len0(c_query_indices)
       IN  \E idx \in rand_argmax(row) :
           /\ c_utilities' = [r \in 0..k |->
                                 IF r = k THEN row ELSE c_utilities[r]]
           /\ c_query_indices' = [r \in 0..k |->
                                     IF r = k THEN idx ELSE c_query_indices[r]]
           /\ c_reference' = AddToReference(c_reference, idx)
    /\ UNCHANGED <<cArgs, c_pc, c_batch_size, c_mapping, c_exc, c_ret>>
    /\ UNCHANGED <<sbVars, qVars, stream, eVars, otherVars>>

\* the indices and the utilities are returned
C_Return ==
    /\ c_pc = "loop"
    /\ Len0(c_query_indices) = c_batch_size
    /\ c_pc' = "done"
    /\ c_ret' = [indices |-> c_query_indices, utilities |-> c_utilities]
    /\ UNCHANGED <<cArgs, c_batch_size, c_mapping, c_reference, c_utilities,
                   c_query_indices, c_exc>>
    /\ UNCHANGED <<sbVars, qVars, stream, eVars, otherVars>>

NextC ==
    \/ C_Validate
    \/ C_Iterate
    \/ C_Return

SpecC == InitC /\ [][NextC]_vars

\* ======================================= ParallelUtilityEstimationWrapper
MaxJobs == 2

\* np.array_split: worker w of n_jobs gets a contiguous slice of the k
\* candidate positions, the first k % n_jobs slices one longer
SliceLen(k, n_jobs, w) ==
    (k \div n_jobs) + (IF w < k % n_jobs THEN 1 ELSE 0)

SliceStart(k, n_jobs, w) ==
    w * (k \div n_jobs) + (IF w < k % n_jobs THEN w ELSE k % n_jobs)

Slice(k, n_jobs, w) ==
    [t \in 0..(SliceLen(k, n_jobs, w) - 1) |-> SliceStart(k, n_jobs, w) + t]

\* a worker's result: the wrapped strategy's utilities of its slice
WorkerUtilities(sc, slice) == [t \in DOMAIN slice |-> sc[slice[t]]]

\* np.hstack of two arrays
HStack2(a, b) ==
    [t \in 0..(Len0(a) + Len0(b) - 1) |->
        IF t < Len0(a) THEN a[t] ELSE b[t - Len0(a)]]

RECURSIVE HStack(_, _, _)
\* the results of the workers ord[1], ..., ord[n], side by side
HStack(parts, ord, n) ==
    IF n = 0 THEN <<>>
    ELSE HStack2(HStack(parts, ord, n - 1), parts[ord[n]])

\* the order in which the parent lays the results side by side: the order
\* in which the slices were handed out
MergeOrderCompletion(n_jobs, completed) == completed

MergeOrder(n_jobs, completed) == [w \in 1..n_jobs |-> w - 1]

\* n_jobs is -1 (all processors) or at least 1
CheckNJobs(n_jobs) == IF n_jobs = 0 THEN "ValueError" ELSE "ok"

\* a wrapper and the arguments of a query call with return_utilities=True
\* and candidates given as rows; every worker gets a candidate
InitP ==
    /\ SbIdle
    /\ QIdle
    /\ EIdle
    /\ CIdle
    /\ TIdle
    /\ p_pc = "call"
    /\ p_n_jobs \in 0..MaxJobs
    /\ p_n_candidates \in 1..MaxCand
    /\ p_n_jobs <= p_n_candidates
    /\ p_score \in [0..(p_n_candidates - 1) -> ScoreLevels]
    /\ p_batch_size \in 1..MaxCand
    /\ p_partial = <<>>
    /\ p_completed = <<>>
    /\ p_utilities = <<>>
    /\ p_exc = "none"
    /\ p_ret = NoRet

pArgs == <<p_n_jobs, p_n_candidates, p_score, p_batch_size>>

\* the parameters are checked and the slices are handed to the workers
P_Dispatch ==
    /\ p_pc = "call"
    /\ IF CheckNJobs(p_n_jobs) # "ok"
       THEN /\ p_pc' = "raised"
            /\ p_exc' = CheckNJobs(p_n_jobs)
            /\ UNCHANGED p_partial
       ELSE /\ p_pc' = "running"
            /\ p_exc' = "none"
            /\ p_partial' = [w \in 0..(p_n_jobs - 1) |-> <<>>]
    /\ UNCHANGED <<pArgs, p_completed, p_utilities, p_ret>>
    /\ UNCHANGED <<sbVars, qVars, stream, eVars, cVars, tVars>>

\* a worker completes: it returns the utilities of its slice
P_Worker ==
    /\ p_pc = "running"
    /\ \E w \in DOMAIN p_partial :
           /\ \A j \in 1..Len(p_completed) : p_completed[j] # w
           /\ p_partial' =
                  [p_partial EXCEPT
                      ![w] = WorkerUtilities(
                                 p_score,
                                 Slice(p_n_candidates, p_n_jobs, w))]
           /\ p_completed' = Append(p_completed, w)
    /\ UNCHANGED <<pArgs, p_pc, p_utilities, p_exc, p_ret>>
    /\ UNCHANGED <<sbVars, qVars, stream, eVars, cVars, tVars>>

\* all workers have completed: the parent merges their results and hands
\* the merged utilities to simple_batch
P_Merge ==
    /\ p_pc = "running"
    /\ Len(p_completed) = p_n_jobs
    /\ p_pc' = "reduce"
    /\ LET merged == HStack(p_partial, MergeOrder(p_n_jobs, p_completed),
                            p_n_jobs)
       IN  /\ p_utilities' = merged
           /\ SbEnter(merged,
                      ValidateBatchSize(p_batch_size, p_n_candidates), TRUE)
    /\ UNCHANGED <<pArgs, p_partial, p_completed, p_exc, p_ret>>
    /\ UNCHANGED <<qVars, stream, eVars, cVars, tVars>>

\* simple_batch has returned: query returns its result
P_Return ==
    /\ p_pc = "reduce"
    /\ sb_pc = "done"
    /\ p_pc' = "done"
    /\ p_ret' = sb_ret
    /\ UNCHANGED <<pArgs, p_partial, p_completed, p_utilities, p_exc>>
    /\ UNCHANGED <<sbVars, qVars, stream, eVars, cVars, tVars>>

NextP ==
    \/ P_Dispatch
    \/ P_Worker
    \/ P_Merge
    \/ SB_Validate
    \/ SB_Iterate
    \/ SB_Return
    \/ P_Return

SpecP == InitP /\ [][NextP]_vars

\* =============================================================== TypiClust
MaxSamples == 3

\* -np.inf, line 208
NegInf == -97

\* the typicality of a row within a cluster of several rows
TypicalityLevels == {1, 2}

\* the labeled rows come first
LabelPatterns(n) ==
    {[p \in 0..(n - 1) |-> IF p < j THEN 0 ELSE MISSING_LABEL] : j \in 0..n}

\* labeled_indices(y), line 143
labeled_indices(yv) == SortedArray({p \in DOMAIN yv : yv[p] # MISSING_LABEL})

\* line 151: a clustering of the rows of X into n clusters, none empty
Clusterings(rows, n) ==
    {f \in [0..(rows - 1) -> 0..(n - 1)] :
        \A c \in 0..(n - 1) : \E p \in 0..(rows - 1) : f[p] = c}

\* lines 153-162: the sizes of the clusters, 0 for a cluster that holds a
\* labeled row
InitialClusterSizes(labels, n, yv) ==
    [c \in 0..(n - 1) |->
        IF \E p \in DOMAIN labels : labels[p] = c /\ yv[p] # MISSING_LABEL
        THEN 0
        ELSE Cardinality({p \in DOMAIN labels : labels[p] = c})]

\* lines 208-220: -inf outside the cluster, 1 for a cluster of one row
Typicality(labels, typ, c) ==
    [p \in DOMAIN labels |->
        IF labels[p] # c THEN NegInf
        ELSE IF Cardinality({q \in DOMAIN labels : labels[q] = c}) = 1 THEN 1
        ELSE typ[p]]

\* lines 173-174: row i of utilities
UtilityRow(typicality, mp, chosen) ==
    [p \in DOMAIN typicality |->
        IF p \in Range(chosen) THEN NaN
        ELSE IF p \in Range(mp) THEN typicality[p]
        ELSE NaN]

\* line 176: typicality[mapping]
AtMapping(typicality, mp) == [j \in DOMAIN mp |-> typicality[mp[j]]]

\* a TypiClust object and the arguments of a query call on X of up to
\* MaxSamples rows, candidates None or an index array
InitT ==
    /\ SbIdle
    /\ QIdle
    /\ EIdle
    /\ CIdle
    /\ PIdle
    /\ t_pc = "call"
    /\ t_y \in UNION {LabelPatterns(n) : n \in 1..MaxSamples}
    /\ t_candidates \in {c \in CandidateArgs(Len0(t_y)) : c.form # "mat"}
    /\ Len0(PoolArray(t_candidates, t_y)) >= 1
    /\ t_batch_size \in 1..MaxSamples
    /\ t_mapping = <<>>
    /\ n_clusters = 0
    /\ cluster_labels = <<>>
    /\ cluster_typicality = <<>>
    /\ cluster_sizes = <<>>
    /\ t_utilities = <<>>
    /\ query_indices = <<>>
    /\ t_exc = "none"
    /\ t_ret = NoRet

tArgs == <<t_y, t_candidates>>

\* lines 115-149: validation, the mapping and the number of clusters
T_Validate ==
    /\ t_pc = "call"
    /\ t_pc' = "validated"
    /\ t_mapping' = PoolArray(t_candidates, t_y)
    /\ t_batch_size' = ValidateBatchSize(t_batch_size,
                                         Len0(PoolArray(t_candidates, t_y)))
    /\ n_clusters' = Len0(labeled_indices(t_y)) + t_batch_size'
    /\ UNCHANGED <<tArgs, cluster_labels, cluster_typicality, cluster_sizes,
                   t_utilities, query_indices, t_exc, t_ret>>
    /\ UNCHANGED <<sbVars, qVars, stream, eVars, cVars, pVars>>

\* lines 151-165: the clustering, which fails for more clusters than rows,
\* the sizes of the uncovered clusters and the empty batch
T_Cluster ==
    /\ t_pc = "validated"
    /\ IF n_clusters > Len0(t_y)
       THEN /\ t_pc' = "raised"
            /\ t_exc' = "ValueError"
            /\ UNCHANGED <<cluster_labels, cluster_typicality, cluster_sizes,
                           t_utilities>>
       ELSE /\ t_pc' = "loop"
            /\ t_exc' = "none"
            /\ cluster_labels' \in Clusterings(Len0(t_y), n_clusters)
            /\ cluster_typicality' \in [DOMAIN t_y -> TypicalityLevels]
            /\ cluster_sizes' =
                   InitialClusterSizes(cluster_labels', n_clusters, t_y)
            /\ t_utilities' = <<>>
    /\ UNCHANGED <<tArgs, t_batch_size, t_mapping, n_clusters, query_indices,
                   t_ret>>
    /\ UNCHANGED <<sbVars, qVars, stream, eVars, cVars, pVars>>

\* lines 166-181: one pass of the loop
T_Iterate ==
    /\ t_pc = "loop"
    /\ Len0(query_indices) < t_batch_size
    /\ \E cluster_id \in rand_argmax(cluster_sizes) :
       LET typicality == Typicality(cluster_labels, cluster_typicality,
                                    cluster_id)
           k == Len0(query_indices)
       IN  \E j \in rand_argmax(AtMapping(typicality, t_mapping)) :
           /\ t_utilities' =
                  [r \in 0..k |->
                      IF r = k
                      THEN UtilityRow(typicality, t_mapping, query_indices)
                      ELSE t_utilities[r]]
           /\ query_indices' =
                  [r \in 0..k |->
                      IF r = k THEN t_mapping[j] ELSE query_indices[r]]
           /\ cluster_sizes' = [cluster_sizes EXCEPT ![cluster_id] = 0]
    /\ UNCHANGED <<tArgs, t_pc, t_batch_size, t_mapping, n_clusters,
                   cluster_labels, cluster_typicality, t_exc, t_ret>>
    /\ UNCHANGED <<sbVars, qVars, stream, eVars, cVars, pVars>>

\* lines 183-186
T_Return ==
    /\ t_pc = "loop"
    /\ Len0(query_indices) = t_batch_size
    /\ t_pc' = "done"
    /\ t_ret' = [indices |-> query_indices, utilities |-> t_utilities]
    /\ UNCHANGED <<tArgs, t_batch_size, t_mapping, n_clusters, cluster_labels,
                   cluster_typicality, cluster_sizes, t_utilities,
                   query_indices, t_exc>>
    /\ UNCHANGED <<sbVars, qVars, stream, eVars, cVars, pVars>>

NextT ==
    \/ T_Validate
    \/ T_Cluster
    \/ T_Iterate
    \/ T_Return

SpecT == InitT /\ [][NextT]_vars

\* --------------------------------------------- claims about simple_batch
\* the positions still selectable at batch position k: not NaN in the
\* caller's array and not chosen at an earlier batch position
Remaining(k) ==
    {p \in DOMAIN arg_utilities :
        /\ ~isnan(arg_utilities[p])
        /\ \A l \in 0..(k - 1) : best_indices[l] # p}

\* C1: simple_batch never selects a position twice: the returned indices are
\* pairwise distinct, and the entry at the index chosen for batch position k
\* is NaN in every later row of the returned utility history.
C1_NoDoubleSelection ==
    sb_pc = "done" =>
        /\ \A k, l \in DOMAIN best_indices :
               k # l => best_indices[k] # best_indices[l]
        /\ \A k \in DOMAIN best_indices :
               \A r \in DOMAIN batch_utilities :
                   r > k => isnan(batch_utilities[r][best_indices[k]])

\* a returned batch of two that was selected among tied utilities
C1_Witness ==
    /\ sb_pc = "done"
    /\ batch_size >= 2
    /\ arg_utilities[best_indices[0]] = arg_utilities[best_indices[1]]

\* C2: a batch_size above the number of non-NaN entries (every entry NaN
\* included) raises nothing, warns, and returns exactly as many selections
\* and utility-history rows as there are non-NaN entries.
C2_BatchClipping ==
    arg_batch_size > CountNotNaN(arg_utilities) =>
        /\ sb_pc # "raised"
        /\ sb_pc \in {"loop", "done"} => sb_warned
        /\ sb_pc = "done" =>
               /\ Len0(best_indices) = CountNotNaN(arg_utilities)
               /\ Len0(batch_utilities) = CountNotNaN(arg_utilities)
               /\ Len0(sb_ret.indices) = CountNotNaN(arg_utilities)

\* simple_batch returned an empty batch for an array of NaN only
C2_Witness ==
    /\ sb_pc = "done"
    /\ arg_batch_size >= 1
    /\ CountNotNaN(arg_utilities) = 0
    /\ Len0(sb_ret.indices) = 0
    /\ sb_warned

\* C3: selections come most-preferred first: the index at batch position k
\* holds a maximum of the non-NaN entries left after the first k selections,
\* the selected utilities are non-increasing along the batch, and a NaN
\* position of the input is never selected.
C3_MostPreferredFirst ==
    sb_pc = "done" =>
        \A k \in DOMAIN best_indices :
            /\ best_indices[k] \in Remaining(k)
            /\ \A p \in Remaining(k) :
                   arg_utilities[p] <= arg_utilities[best_indices[k]]
            /\ (k + 1) \in DOMAIN best_indices =>
                   arg_utilities[best_indices[k + 1]]
                       <= arg_utilities[best_indices[k]]

\* a batch whose second selection is strictly worse than its first, taken
\* from an array that holds a NaN
C3_Witness ==
    /\ sb_pc = "done"
    /\ batch_size >= 2
    /\ arg_utilities[best_indices[1]] < arg_utilities[best_indices[0]]
    /\ \E p \in DOMAIN arg_utilities : isnan(arg_utilities[p])

\* ----------------------------------- claims about SubSamplingWrapper.query
\* query has returned (the direct call of the comparison may follow)
Returned == q_pc \in {"done", "direct", "compared"}

\* the sub-sample has been drawn
HasDrawn ==
    \/ q_pc \in {"drawn", "inner", "done", "direct", "compared"}
    \/ q_pc = "raised" /\ inner_calls > 0

\* the candidate pool as the claims describe it
ClaimedPool ==
    IF candidates.form = "None"
    THEN {p \in 0..(n_samples - 1) : y[p] = MISSING_LABEL}
    ELSE IF candidates.form = "idx"
    THEN {candidates.idx[j] : j \in DOMAIN candidates.idx}
    ELSE 0..(candidates.n - 1)

\* C4: with candidates a 2-D matrix of k rows, the returned utilities have
\* exactly k columns and are NaN at every column outside the drawn
\* sub-sample, and every returned index (with or without utilities) lies in
\* 0..k-1 and is a position of the drawn sub-sample.
C4_IndexSpaceFidelity ==
    (candidates.form = "mat" /\ Returned) =>
        /\ \A k \in DOMAIN q_ret.indices :
               /\ q_ret.indices[k] \in 0..(candidates.n - 1)
               /\ q_ret.indices[k] \in Range(new_candidate_indices)
        /\ q_return_utilities =>
               \A r \in DOMAIN q_ret.utilities :
                   /\ DOMAIN q_ret.utilities[r] = 0..(candidates.n - 1)
                   /\ \A c \in 0..(candidates.n - 1) :
                          c \notin Range(new_candidate_indices)
                              => isnan(q_ret.utilities[r][c])

\* two of three rows were drawn in an order that is not the identity, and
\* the returned index is the translated one
C4_Witness ==
    /\ Returned
    /\ candidates.form = "mat"
    /\ candidates.n = 3
    /\ q_return_utilities
    /\ Len0(new_candidate_indices) = 2
    /\ new_candidate_indices[0] = 2
    /\ q_ret.indices[0] = 2

\* C5: the sub-sample handed to the inner strategy consists of pairwise
\* distinct members of the candidate pool (unlabeled indices for None, the
\* given indices whatever their label for an index array, row positions for
\* a matrix), and its size is min(m, pool size), m being max_candidates for
\* an integer and ceil(max_candidates * pool size) for a float.
C5_SubSample ==
    HasDrawn =>
        LET p == Cardinality(ClaimedPool)
            m == IF max_candidates.type = "int" THEN max_candidates.num
                 ELSE CHOOSE c \in 0..(p * (FloatDen + 1)) :
                          /\ c * max_candidates.den >= p * max_candidates.num
                          /\ (c - 1) * max_candidates.den
                                 < p * max_candidates.num
        IN  /\ \A j, k \in DOMAIN new_candidates :
                   j # k => new_candidates[j] # new_candidates[k]
            /\ \A j \in DOMAIN new_candidates :
                   new_candidates[j] \in ClaimedPool
            /\ Len0(new_candidates) = (IF m < p THEN m ELSE p)

\* a float max_candidates whose product with the pool size is rounded up,
\* over an index array that names a labeled sample
C5_Witness ==
    /\ q_pc = "drawn"
    /\ candidates.form = "idx"
    /\ max_candidates.type = "float"
    /\ (Cardinality(ClaimedPool) * max_candidates.num) % max_candidates.den # 0
    /\ \E j \in DOMAIN new_candidates : y[new_candidates[j]] # MISSING_LABEL

\* C6: with return_utilities=True the first row of the returned utilities has
\* as many non-NaN entries as the sub-sample has members (max_candidates of
\* them when the pool is that large), as many columns as X has rows when
\* candidates is None, and indices and utility history both have batch_size
\* rows when batch_size does not exceed the sub-sample size.
C6_ShapeOfResult ==
    (Returned /\ q_return_utilities) =>
        /\ CountNotNaN(q_ret.utilities[0]) = Len0(new_candidates)
        /\ (max_candidates.type = "int"
            /\ Cardinality(ClaimedPool) >= max_candidates.num)
               => CountNotNaN(q_ret.utilities[0]) = max_candidates.num
        /\ candidates.form = "None"
               => Len0(q_ret.utilities[0]) = n_samples
        /\ q_batch_size <= Len0(new_candidates)
               => /\ Len0(q_ret.indices) = q_batch_size
                  /\ Len0(q_ret.utilities) = q_batch_size

\* a batch of two from a sub-sample of two out of three rows
C6_Witness ==
    /\ Returned
    /\ q_return_utilities
    /\ max_candidates.type = "int"
    /\ max_candidates.num = 2
    /\ Cardinality(ClaimedPool) = 3
    /\ q_batch_size = 2
    /\ Len0(q_ret.utilities) = 2

\* C7 as stated: every non-NaN utility the wrapper returns equals the utility
\* the wrapped strategy returns at the same position (row and column) when
\* called directly on the full candidate set.
C7_SamePositionAllRows ==
    q_pc = "compared" =>
        \A r \in DOMAIN q_ret.utilities :
            \A c \in DOMAIN q_ret.utilities[r] :
                ~isnan(q_ret.utilities[r][c]) =>
                    /\ r \in DOMAIN d_ret.utilities
                    /\ q_ret.utilities[r][c] = d_ret.utilities[r][c]

\* C7 (amended): every non-NaN utility in the first row the wrapper returns
\* equals the utility the wrapped strategy returns at the same position when
\* called directly on the full candidate set.
C7_FirstRowScores ==
    q_pc = "compared" =>
        \A c \in DOMAIN q_ret.utilities[0] :
            ~isnan(q_ret.utilities[0][c]) =>
                q_ret.utilities[0][c] = d_ret.utilities[0][c]

\* a proper sub-sample of a matrix, drawn out of order, whose candidates do
\* not all score alike, compared with the direct call
C7_Witness ==
    /\ q_pc = "compared"
    /\ candidates.form = "mat"
    /\ Len0(new_candidate_indices) = 2
    /\ candidates.n = 3
    /\ new_candidate_indices[0] > new_candidate_indices[1]
    /\ score[new_candidate_indices[0]] # score[new_candidate_indices[1]]

\* C8: for every form of candidates and both values of return_utilities, a
\* query whose batch_size exceeds the size of the drawn sub-sample raises
\* nothing, warns, and returns a batch of exactly the sub-sample size.
C8_BatchAboveSubSample ==
    (HasDrawn /\ q_batch_size > Len0(new_candidates)) =>
        /\ q_pc # "raised"
        /\ Returned =>
               /\ q_warnings # {}
               /\ Len0(q_ret.indices) = Len0(new_candidates)

ValidMaxCandidates ==
    \/ max_candidates.type = "int" /\ max_candidates.num >= 1
    \/ /\ max_candidates.type = "float"
       /\ max_candidates.num > 0
       /\ max_candidates.num <= max_candidates.den

\* no sub-sample was drawn and the inner strategy was not called
NothingDone ==
    /\ new_candidates = <<>>
    /\ new_candidate_indices = <<>>
    /\ m_candidates = 0
    /\ inner_calls = 0
    /\ sb_pc = "idle"

\* C10: query (of a wrapper around a single-annotator pool strategy) goes on
\* only with a max_candidates that is an integer >= 1 or a float in (0, 1];
\* an integer < 1 or a float outside (0, 1] raises ValueError, another type
\* TypeError, in each case before a sub-sample is drawn and before the inner
\* strategy's query is called.
C10_MaxCandidatesChecked ==
    (query_strategy = "SingleAnnotatorPoolQueryStrategy" /\ q_pc # "call") =>
        IF ValidMaxCandidates
        THEN ~(q_pc = "raised" /\ ~HasDrawn)
        ELSE /\ q_pc = "raised"
             /\ NothingDone
             /\ q_exc = (IF max_candidates.type \in {"int", "float"}
                         THEN "ValueError" ELSE "TypeError")

\* a float above 1 was rejected with a ValueError
C10_Witness ==
    /\ q_pc = "raised"
    /\ q_exc = "ValueError"
    /\ max_candidates.type = "float"
    /\ max_candidates.num > max_candidates.den
    /\ NothingDone

\* ------------------------------- claims about the wrapper's random draw
\* C11: the seed multiplier of a call is the number of labeled entries of y
\* plus one, and a second call of the same wrapper with the same X, y,
\* candidates and integer random_state draws the sub-sample the first call
\* drew
C11_ReproducibleSubSample ==
    /\ q_pc \in {"validated", "drawn", "inner", "done"}
           => seed_multiplier = CountLabeled(y) + 1
    /\ (calls = 1 /\ q_pc \in {"drawn", "inner", "done"})
           => new_candidates = first_draw

\* a second call has drawn a proper, non-empty part of the pool while some
\* entries of y are labeled
C11_Witness ==
    /\ calls = 1
    /\ q_pc = "drawn"
    /\ CountLabeled(y) >= 1
    /\ Len0(new_candidates) >= 1
    /\ Len0(new_candidates) < Cardinality(Pool)
    /\ new_candidates = first_draw

ConfigOk == CheckConfig(models[self_clf], self_classes, self_method) = "ok"

NoFitYet ==
    /\ fit_log = <<>>
    /\ \A id \in DOMAIN models : ~models[id].fitted

\* C13: once the checks have run, a clf that is not a ClassFrequencyEstimator
\* has raised TypeError; otherwise classes that differ from the classifier's
\* have raised ValueError; otherwise a method outside {log_loss, emr, csl}
\* has raised ValueError; otherwise differing feature counts of X and X_cand
\* have raised ValueError; and whenever query has raised, no fit call was
\* made on any model
C13_RejectsBeforeFit ==
    /\ e_pc = "raised" => NoFitYet
    /\ (e_pc \notin {"idle", "call"}
           /\ models[self_clf].type # "ClassFrequencyEstimator")
          => (e_pc = "raised" /\ e_exc = "TypeError")
    /\ (e_pc \notin {"idle", "call"}
           /\ models[self_clf].type = "ClassFrequencyEstimator"
           /\ models[self_clf].classes # self_classes)
          => (e_pc = "raised" /\ e_exc = "ValueError")
    /\ (e_pc \notin {"idle", "call"}
           /\ models[self_clf].type = "ClassFrequencyEstimator"
           /\ models[self_clf].classes = self_classes
           /\ self_method \notin {"log_loss", "emr", "csl"})
          => (e_pc = "raised" /\ e_exc = "ValueError")
    /\ (e_pc \notin {"idle", "call", "checked"}
           /\ ConfigOk
           /\ X.features # X_cand.features)
          => (e_pc = "raised" /\ e_exc = "ValueError")

\* a valid configuration was accepted and the feature counts were rejected
C13_Witness ==
    /\ e_pc = "raised"
    /\ e_exc = "ValueError"
    /\ ConfigOk
    /\ X.features # X_cand.features
    /\ NoFitYet

C15_AppendsClassLabel ==
    \A a \in 1..Len(fit_log) :
        fit_log[a].kind = "trial" =>
            /\ fit_log[a].rows = X.rows + 1
            /\ fit_log[a].label = self_classes[fit_log[a].yi + 1]
            /\ \E c \in 1..Len(self_classes) :
                   fit_log[a].label = self_classes[c]

\* C16 as stated: the second of two query calls with the same arguments
\* returns the indices and the utilities of the first
C16_SameResultTwice ==
    (e_calls = 1 /\ e_pc = "done") =>
        /\ e_ret.indices = e_first.indices
        /\ e_utilities = e_first.utilities

\* C17: no step of query changes X, y, X_cand or the caller's classifier
\* object
C17_CallerOwnedUnchanged ==
    [][/\ X' = X
       /\ e_y' = e_y
       /\ X_cand' = X_cand
       /\ self_clf' = self_clf
       /\ models'[self_clf] = models[self_clf]]_vars

\* query has returned after fitting its clone for the baseline and for every
\* trial, and the caller's classifier is unfitted
C17_Witness ==
    /\ e_pc = "done"
    /\ Len(fit_log) >= 3
    /\ models[clf].fitted
    /\ clf # self_clf
    /\ ~models[self_clf].fitted

\* the expected error of candidate ci as the claim states it
ExpectedError(ci) ==
    SumTo([yi \in 0..(Len(self_classes) - 1) |-> P[ci][yi] * costs[ci][yi]],
          Len(self_classes))

\* C18: query returns one index, a position whose utility no candidate
\* exceeds, and with return_utilities one row of n_candidates utilities in
\* which candidate ci holds minus the sum over the hypothetical labels of
\* P[ci, yi] times the risk found after the refit of (ci, yi)
C18_NegativeExpectedError ==
    e_pc = "done" =>
        /\ DOMAIN e_ret.indices = 0..0
        /\ e_ret.indices[0] \in 0..(X_cand.rows - 1)
        /\ \A ci \in 0..(X_cand.rows - 1) :
               0 - ExpectedError(ci) <= 0 - ExpectedError(e_ret.indices[0])
        /\ e_return_utilities =>
               /\ DOMAIN e_ret.utilities = 0..0
               /\ DOMAIN e_ret.utilities[0] = 0..(X_cand.rows - 1)
               /\ \A ci \in 0..(X_cand.rows - 1) :
                      e_ret.utilities[0][ci] = 0 - ExpectedError(ci)
        /\ ~e_return_utilities => DOMAIN e_ret = {"indices"}

\* query has returned utilities that differ between two candidates, one of
\* them weighted by a posterior that is split between the classes
C18_Witness ==
    /\ e_pc = "done"
    /\ e_return_utilities
    /\ X_cand.rows >= 2
    /\ e_ret.utilities[0][0] # e_ret.utilities[0][1]
    /\ \E ci \in 0..(X_cand.rows - 1) :
           /\ P[ci][0] = 1
           /\ costs[ci][0] # costs[ci][1]
    /\ e_ret.utilities[0][e_ret.indices[0]] = nanmax(e_ret.utilities[0])

\* ------------------------------------------------ claims about CoreSet
\* C19: every returned utility is NaN or at least 0; when candidates is an
\* index array, every index of X outside it holds NaN in every row and every
\* index in it holds a number in the first row
C19_NonNegativeOrNaN ==
    c_pc = "done" =>
        /\ \A r \in DOMAIN c_ret.utilities :
               \A p \in DOMAIN c_ret.utilities[r] :
                  c_ret.utilities[r][p] = NaN \/ c_ret.utilities[r][p] >= 0
        /\ c_candidates.form = "idx" =>
               \A p \in DOMAIN c_X :
                  IF p \in Range(c_candidates.idx)
                  THEN c_ret.utilities[0][p] # NaN
                  ELSE \A r \in DOMAIN c_ret.utilities :
                          c_ret.utilities[r][p] = NaN

\* query has returned two rows of utilities for identical points, with an
\* index array that leaves out an unlabeled row
C19_Witness ==
    /\ c_pc = "done"
    /\ c_candidates.form = "idx"
    /\ Len0(c_X) >= 3
    /\ \A a, b \in DOMAIN c_X : c_X[a] = c_X[b]
    /\ Len0(c_ret.utilities) >= 2
    /\ \E p \in DOMAIN c_X :
           p \notin Range(c_candidates.idx) /\ c_y[p] = MISSING_LABEL
    /\ \E p \in DOMAIN c_X : c_ret.utilities[0][p] = 0

\* the reference set of row r: the labeled rows and the earlier selections
ReferenceOfRow(r) ==
    LabeledIndices(c_y) \cup {c_query_indices[j] : j \in 0..(r - 1)}

\* C20: in every row filled so far a number is the distance to the nearest
\* point of that row's reference set, the selected index holds the largest
\* number of its row and NaN in all later rows, and no number exceeds the
\* number at the same index one row earlier
C20_GreedyFarthestPoint ==
    \A r \in DOMAIN c_utilities :
        /\ \A p \in DOMAIN c_X :
               c_utilities[r][p] # NaN =>
                   /\ \E q \in ReferenceOfRow(r) :
                          Dist(c_X[p], c_X[q]) = c_utilities[r][p]
                   /\ \A q \in ReferenceOfRow(r) :
                          Dist(c_X[p], c_X[q]) >= c_utilities[r][p]
                   /\ r > 0 =>
                          /\ c_utilities[r - 1][p] # NaN
                          /\ c_utilities[r][p] <= c_utilities[r - 1][p]
        /\ c_utilities[r][c_query_indices[r]] # NaN
        /\ \A p \in DOMAIN c_X :
               c_utilities[r][p] # NaN =>
                   c_utilities[r][p] <= c_utilities[r][c_query_indices[r]]
        /\ c_query_indices[r] \in c_reference
        /\ \A later \in DOMAIN c_utilities :
               later > r => c_utilities[later][c_query_indices[r]] = NaN

\* a second row holds a smaller number than the first at some candidate,
\* because the first selection is nearer to it than any labeled row
C20_Witness ==
    /\ c_pc = "done"
    /\ Len0(c_utilities) >= 2
    /\ \E p \in DOMAIN c_X :
           /\ c_utilities[1][p] # NaN
           /\ c_utilities[1][p] < c_utilities[0][p]

\* ------------------------------- claims about the parallel wrapper
\* the candidate positions of worker w
SlicePositions(w) == Range(Slice(p_n_candidates, p_n_jobs, w))

\* C21: the slices of the workers are pairwise disjoint and cover the
\* candidates; whatever the order in which the workers completed, the merged
\* utilities hold every candidate's utility at the candidate's position, and
\* so does the first row query returns, as the wrapped strategy's own
\* utilities do
C21_MergeKeepsPositions ==
    /\ p_pc \in {"running", "reduce", "done"} =>
           /\ \A v, w \in 0..(p_n_jobs - 1) :
                  v # w => SlicePositions(v) \cap SlicePositions(w) = {}
           /\ UNION {SlicePositions(w) : w \in 0..(p_n_jobs - 1)}
                  = 0..(p_n_candidates - 1)
    /\ p_pc \in {"reduce", "done"} =>
           /\ DOMAIN p_utilities = 0..(p_n_candidates - 1)
           /\ \A pos \in 0..(p_n_candidates - 1) :
                  p_utilities[pos] = p_score[pos]
    /\ p_pc = "done" =>
           \A pos \in 0..(p_n_candidates - 1) :
               p_ret.utilities[0][pos] = p_score[pos]

\* the second worker completed before the first, the candidates differ in
\* utility, and query has returned
C21_Witness ==
    /\ p_pc = "done"
    /\ p_n_jobs = 2
    /\ p_completed = <<1, 0>>
    /\ p_score[0] # p_score[p_n_candidates - 1]
    /\ p_ret.utilities[0] = p_score

\* ------------------------------------------------ claims about TypiClust
\* C22 as stated: the returned indices are pairwise distinct and all belong
\* to the candidate mapping
C22_DistinctCandidates ==
    t_pc = "done" =>
        /\ Len0(t_ret.indices) = t_batch_size
        /\ \A a, b \in DOMAIN t_ret.indices :
               a # b => t_ret.indices[a] # t_ret.indices[b]
        /\ \A a \in DOMAIN t_ret.indices :
               t_ret.indices[a] \in Range(t_mapping)

\* ------------------------------------- simple_batch and its caller's array
\* C23 as stated: after the call every entry of the array the caller passed
\* equals its value before the call
C23_CallerArrayUnchanged ==
    sb_pc = "done" => caller_utilities = arg_utilities

\* ------------------------------------ the utility history of simple_batch
\* the position, in an array stored row by row, of a returned index
PositionOf(index, shp) ==
    IF Len(shp) = 1 THEN index ELSE index[1] * shp[2] + index[2]

\* C24: the history has one row per selection, each of the shape of the
\* input; row r is the input with exactly the selections 0..r-1 set to NaN;
\* the index result is a flat vector for 1-D utilities and one row of ndim
\* coordinates per selection for N-D utilities
C24_HistoryIsSnapshots ==
    sb_pc = "done" =>
        /\ DOMAIN sb_ret.indices = 0..(batch_size - 1)
        /\ Len(shape) = 1 =>
               \A k \in DOMAIN sb_ret.indices :
                   sb_ret.indices[k] \in DOMAIN arg_utilities
        /\ Len(shape) > 1 =>
               \A k \in DOMAIN sb_ret.indices :
                   /\ DOMAIN sb_ret.indices[k] = 1..Len(shape)
                   /\ \A d \in 1..Len(shape) :
                          sb_ret.indices[k][d] \in 0..(shape[d] - 1)
        /\ return_utilities =>
               /\ DOMAIN sb_ret.utilities = 0..(batch_size - 1)
               /\ \A r \in DOMAIN sb_ret.utilities :
                      /\ DOMAIN sb_ret.utilities[r] = DOMAIN arg_utilities
                      /\ \A p \in DOMAIN arg_utilities :
                             sb_ret.utilities[r][p] =
                                 IF \E k \in 0..(r - 1) :
                                        PositionOf(sb_ret.indices[k], shape) = p
                                 THEN NaN
                                 ELSE arg_utilities[p]

\* a returned history of two rows over utilities of two dimensions, the
\* second selection in another row of the array than the first
C24_Witness ==
    /\ sb_pc = "done"
    /\ return_utilities
    /\ Len(shape) = 2
    /\ Len0(sb_ret.utilities) >= 2
    /\ sb_ret.indices[0][1] # sb_ret.indices[1][1]
    /\ ~isnan(sb_ret.utilities[1][PositionOf(sb_ret.indices[1], shape)])

\* ------------------------------------------ the csl risk of a trial
\* C25: with method 'csl' the risk of every trial is taken over the labeled
\* rows of the original y only, never over the appended hypothetical sample;
\* without a labeled row every risk and every utility is 0, so every
\* candidate is tied for the maximum
C25_CslOnLabeledOnly ==
    (self_method = CSL /\ e_pc \in {"loop", "scored", "done"}) =>
        /\ \A a \in 1..Len(fit_log) :
               fit_log[a].kind = "trial" =>
                   /\ fit_log[a].risk_on.array = "X"
                   /\ fit_log[a].risk_on.rows \subseteq 0..(X.rows - 1)
                   /\ \A p \in 0..(X.rows - 1) :
                          p \in fit_log[a].risk_on.rows
                              <=> e_y[p] \in Range(self_classes)
        /\ (\A p \in DOMAIN e_y : e_y[p] = MISSING_LABEL) =>
               /\ \A a \in 1..Len(fit_log) :
                      fit_log[a].kind = "trial" =>
                          costs[fit_log[a].ci][fit_log[a].yi] = 0
               /\ e_pc \in {"scored", "done"} =>
                      /\ DOMAIN e_utilities = 0..(X_cand.rows - 1)
                      /\ \A ci \in DOMAIN e_utilities : e_utilities[ci] = 0

\* a csl query on a y without a labeled row returned a candidate other than
\* the first one
C25_Witness ==
    /\ self_method = CSL
    /\ e_pc = "done"
    /\ \A p \in DOMAIN e_y : e_y[p] = MISSING_LABEL
    /\ X_cand.rows >= 2
    /\ e_ret.indices[0] > 0
    /\ \E ci \in DOMAIN P : \E yi \in DOMAIN P[ci] : P[ci][yi] > 0

\* ------------------------------- the configuration of the strategy object
\* C26 as stated: no step of a query call, whether the call returns or
\* raises, changes the attributes clf, classes, method, C and random_state
C26_ConfigurationUnchanged ==
    [][<<self_clf, self_classes, self_method, self_C, self_random_state>>'
           = <<self_clf, self_classes, self_method, self_C,
               self_random_state>>]_vars

====
